---- MODULE Spec2Model ----
(***************************************************************************)
(* r-scheme: a model of the evaluator (src/src/eval.rs), the environment   *)
(* chain (src/src/env.rs) and the tokenizer (src/src/lexer.rs).            *)
(*                                                                         *)
(* The evaluator is a recursive function over Object trees that threads a  *)
(* heap of Env nodes.  It is modelled as RECURSIVE operators that thread a *)
(* record st = [heap, log]; log is a history of the evaluator's steps      *)
(* (entry and return of eval_obj, Env::extend, Env::set), each with the    *)
(* heap as it is after the step.  The claims are stated over that history. *)
(*                                                                         *)
(* i64 is modelled with IntBits bits (TLC's integers are 32 bits wide), so *)
(* that every overflow case of the 64-bit code exists in the model.        *)
(***************************************************************************)
EXTENDS Integers, Sequences, FiniteSets, TLC

VARIABLES
    overflow_checks, \* build profile: TRUE = debug (overflow panics), FALSE = release (wraps)
    genv,            \* vars of the session's global Env (main.rs: env)
    alive,           \* FALSE once the process has panicked
    lines,           \* number of lines evaluated so far
    program,         \* the parse tree of the last line evaluated
    result,          \* the Result of the last eval call
    log,             \* history of the last eval call
    text,            \* the source text given to tokenize
    it,              \* the TokenIterator
    out,             \* what the calls of next() returned so far, in order
    tree,            \* the Result of parse(text)
    shown            \* the renderings printed so far, in order

evalvars == <<overflow_checks, genv, alive, lines, program, result, log>>
lexvars == <<text, it, out>>
parsevars == <<tree, shown>>
vars == <<evalvars, lexvars, parsevars>>

\* ----------------------------------------------------------------- bounds
IntBits == 5
MaxDepth == 40
MaxLines == 2
MaxLen == 4

\* ------------------------------------------------------------- i64 (scaled)
RECURSIVE Pow2(_)
Pow2(n) == IF n = 0 THEN 1 ELSE 2 * Pow2(n - 1)

I64Min == -Pow2(IntBits - 1)
I64Max == Pow2(IntBits - 1) - 1
I64 == I64Min..I64Max

Abs(x) == IF x < 0 THEN -x ELSE x

\* two's complement wrap of a mathematical integer
Wrap(x) == ((x - I64Min) % Pow2(IntBits)) + I64Min

\* Rust's integer division truncates toward zero
TruncDiv(l, r) ==
    IF (l < 0) # (r < 0) THEN -(Abs(l) \div Abs(r)) ELSE Abs(l) \div Abs(r)

\* ------------------------------------------------------------------ Object
Integer(n) == [t |-> "Integer", n |-> n]
Bool(b) == [t |-> "Bool", b |-> b]
String(s) == [t |-> "String", str |-> s]
Symbol(s) == [t |-> "Symbol", s |-> s]
Float(num, den) == [t |-> "Float", num |-> num, den |-> den]
Lambda(params, body) == [t |-> "Lambda", params |-> params, body |-> body]
List(l) == [t |-> "List", l |-> l]

\* ------------------------------------------------------------------ Result
Ok(v) == [kind |-> "ok", val |-> v]
Err(e) == [kind |-> "err", err |-> e]
Panic(e) == [kind |-> "panic", err |-> e]

\* --------------------------------------------------------------------- Env
\* An Env node: parent = 0 for None, otherwise the index of the parent in
\* the heap; vars is the HashMap, a function on the bound names.
Env_new == [parent |-> 0, vars |-> <<>>]
\* mutant: the activation is a root scope (Env::new() in place of extend)
Env_extend_root(parent) == [parent |-> 0, vars |-> <<>>]

Env_extend(parent) == [parent |-> parent, vars |-> <<>>]

RECURSIVE Env_get(_, _, _)
Env_get(heap, e, name) ==
    IF name \in DOMAIN heap[e].vars
    THEN [some |-> TRUE, v |-> heap[e].vars[name]]
    ELSE IF heap[e].parent = 0
         THEN [some |-> FALSE]
         ELSE Env_get(heap, heap[e].parent, name)

\* mutant: set overwrites the nearest binding on the scope chain
RECURSIVE Env_set_nearest(_, _, _, _)
Env_set_nearest(heap, e, name, val) ==
    IF \/ name \in DOMAIN heap[e].vars
       \/ heap[e].parent = 0
       \/ ~Env_get(heap, heap[e].parent, name).some
    THEN [heap EXCEPT ![e].vars = (name :> val) @@ heap[e].vars]
    ELSE Env_set_nearest(heap, heap[e].parent, name, val)

Env_set(heap, e, name, val) ==
    [heap EXCEPT ![e].vars = (name :> val) @@ heap[e].vars]

\* -------------------------------------------------------------- history
Emit(st, ev) ==
    [st EXCEPT !.log = Append(st.log, ev @@ [heap |-> st.heap])]

SetIn(st, d, e, name, val) ==
    LET h == Env_set(st.heap, e, name, val)
    IN  [heap |-> h,
         log |-> Append(st.log, [k |-> "set", d |-> d, env |-> e, name |-> name,
                                 val |-> val, heap |-> h])]

ExtendIn(st, d, e) ==
    LET h == Append(st.heap, Env_extend(e))
    IN  [heap |-> h,
         log |-> Append(st.log, [k |-> "extend", d |-> d, env |-> Len(h),
                                 parent |-> e, heap |-> h])]

\* --------------------------------------------------------------- evaluator
BINOPS == {"+", "-", "*", "/", "<", ">", "=", "!="}

\* mutant: wrapping multiplication
i64_wrapping_mul(l, r) == [some |-> TRUE, v |-> Wrap(l * r)]

i64_checked_mul(l, r) ==
    IF l * r \in I64 THEN [some |-> TRUE, v |-> l * r] ELSE [some |-> FALSE]

\* l + r and l - r: the overflow behaviour is the build's
ArithOverflow(x, what) ==
    IF x \in I64 THEN Ok(Integer(x))
    ELSE IF overflow_checks THEN Panic(what)
    ELSE Ok(Integer(Wrap(x)))

\* l / r panics for a zero divisor and for MIN / -1 in every build
IntDiv(l, r) ==
    IF r = 0 THEN Panic("attempt to divide by zero")
    ELSE IF l = I64Min /\ r = -1 THEN Panic("attempt to divide with overflow")
    ELSE Ok(Integer(TruncDiv(l, r)))

NonNumeric == Err("Unable to apply binary operation on non-numeric values")

\* the match of binop on the two evaluated operands (eval.rs 102-187)
ApplyBinop(operator, left, right) ==
    IF left.t = "Integer" /\ right.t = "Integer"
    THEN LET l == left.n
             r == right.n
         IN  CASE operator = "+" -> ArithOverflow(l + r, "attempt to add with overflow")
               [] operator = "-" -> ArithOverflow(l - r, "attempt to subtract with overflow")
               [] operator = "*" ->
                    LET m == i64_checked_mul(l, r)
                    IN  IF m.some THEN Ok(Integer(m.v)) ELSE Err("Integer overflow")
               [] operator = "/" -> IntDiv(l, r)
               [] operator = "<" -> Ok(Bool(l < r))
               [] operator = ">" -> Ok(Bool(l > r))
               [] operator = "=" -> Ok(Bool(l = r))
               [] operator = "!=" -> Ok(Bool(l # r))
    ELSE NonNumeric

\* mutant: only too few arguments are refused
ArityMismatch_few(params, list) == Len(params) > Len(list) - 1

\* params.len() != list.len() - 1 (eval.rs 231)
ArityMismatch(params, list) == Len(params) # Len(list) - 1

RECURSIVE eval_obj(_, _, _, _)
RECURSIVE eval_list(_, _, _, _)
RECURSIVE eval_seq(_, _, _, _, _, _)
RECURSIVE define(_, _, _, _, _)
RECURSIVE binop(_, _, _, _, _, _)
RECURSIVE eval_condition(_, _, _, _)
RECURSIVE eval_if(_, _, _, _, _)
RECURSIVE eval_if_else(_, _, _, _, _, _)
RECURSIVE eval_function_call(_, _, _, _, _)
RECURSIVE bind_params(_, _, _, _, _, _, _)

eval_symbol(s, env, st) ==
    LET val == Env_get(st.heap, env, s)
    IN  IF ~val.some
        THEN [res |-> Err("Unbound symbol"), st |-> st]
        ELSE [res |-> Ok(val.v), st |-> st]

\* eval_obj: d is the nesting depth of the call (the host stack)
eval_obj(obj, env, d, st) ==
    LET st1 == Emit(st, [k |-> "enter", d |-> d, env |-> env, obj |-> obj])
        r == IF d > MaxDepth
             THEN [res |-> Panic("stack overflow"), st |-> st1]
             ELSE CASE obj.t = "Bool" -> [res |-> Ok(obj), st |-> st1]
                    [] obj.t = "Float" -> [res |-> Ok(obj), st |-> st1]
                    [] obj.t = "Integer" -> [res |-> Ok(obj), st |-> st1]
                    [] obj.t = "Lambda" ->
                         [res |-> Err("Lambda not yet evaluable"), st |-> st1]
                    [] obj.t = "List" -> eval_list(obj.l, env, d, st1)
                    [] obj.t = "String" -> [res |-> Ok(obj), st |-> st1]
                    [] obj.t = "Symbol" -> eval_symbol(obj.s, env, st1)
    IN  [res |-> r.res,
         st |-> Emit(r.st, [k |-> "exit", d |-> d, env |-> env, obj |-> obj,
                            res |-> r.res])]

\* the params loop of the lambda form (eval.rs 71-80)
RECURSIVE lambda_params(_, _, _)
lambda_params(params_list, i, params) ==
    IF i > Len(params_list) THEN [ok |-> TRUE, params |-> params]
    ELSE IF params_list[i].t = "Symbol"
         THEN lambda_params(params_list, i + 1, Append(params, params_list[i].s))
         ELSE [ok |-> FALSE]

\* which arm of eval_builtin's slice match a list takes (eval.rs 55-83)
BuiltinArm(list) ==
    IF Len(list) = 0 \/ list[1].t # "Symbol" THEN "none"
    ELSE IF Len(list) = 3 /\ list[1].s = "define" /\ list[2].t = "Symbol" THEN "define"
    ELSE IF Len(list) = 3 /\ list[1].s \in BINOPS THEN "binop"
    ELSE IF Len(list) = 3 /\ list[1].s = "if" THEN "if"
    ELSE IF Len(list) = 4 /\ list[1].s = "if" THEN "if_else"
    ELSE IF Len(list) = 3 /\ list[1].s = "lambda"
            /\ list[2].t = "List" /\ list[3].t = "List" THEN "lambda"
    ELSE "none"

eval_builtin(list, env, d, st) ==
    LET arm == BuiltinArm(list)
    IN  CASE arm = "define" -> define(list[2].s, list[3], env, d, st)
          [] arm = "binop" -> binop(list[1].s, list[2], list[3], env, d, st)
          [] arm = "if" -> eval_if(list[2], list[3], env, d, st)
          [] arm = "if_else" -> eval_if_else(list[2], list[3], list[4], env, d, st)
          [] arm = "lambda" ->
               LET p == lambda_params(list[2].l, 1, <<>>)
               IN  IF p.ok
                   THEN [res |-> Ok(Lambda(p.params, list[3].l)), st |-> st]
                   ELSE [res |-> Err("Invalid lambda parameter"), st |-> st]

\* mutant: a head bound in the environment is called before the built-in
\* forms are tried
eval_list_user_first(list, env, d, st) ==
    IF /\ Len(list) > 0
       /\ list[1].t = "Symbol"
       /\ Env_get(st.heap, env, list[1].s).some
    THEN eval_function_call(list[1].s, list, env, d, st)
    ELSE IF BuiltinArm(list) # "none" THEN eval_builtin(list, env, d, st)
    ELSE IF Len(list) = 0 THEN [res |-> Err("Empty list"), st |-> st]
    ELSE IF list[1].t = "Symbol" THEN eval_function_call(list[1].s, list, env, d, st)
    ELSE eval_seq(list, 1, env, d, st, <<>>)

eval_list(list, env, d, st) ==
    IF BuiltinArm(list) # "none" THEN eval_builtin(list, env, d, st)
    ELSE IF Len(list) = 0 THEN [res |-> Err("Empty list"), st |-> st]
    ELSE IF list[1].t = "Symbol" THEN eval_function_call(list[1].s, list, env, d, st)
    ELSE eval_seq(list, 1, env, d, st, <<>>)

\* mutant: every element is evaluated, the first error is reported at the end
eval_seq_eager(list, i, env, d, st, acc) ==
    IF i > Len(list) THEN [res |-> Ok(List(acc)), st |-> st]
    ELSE LET r == eval_obj(list[i], env, d + 1, st)
         IN  IF r.res.kind # "ok"
             THEN [res |-> r.res, st |-> eval_seq(list, i + 1, env, d, r.st, acc).st]
             ELSE eval_seq(list, i + 1, env, d, r.st, Append(acc, r.res.val))

\* mutant: the results are collected in reverse
eval_seq_reversed(list, i, env, d, st, acc) ==
    IF i > Len(list) THEN [res |-> Ok(List(acc)), st |-> st]
    ELSE LET r == eval_obj(list[i], env, d + 1, st)
         IN  IF r.res.kind # "ok" THEN r
             ELSE eval_seq(list, i + 1, env, d, r.st, <<r.res.val>> \o acc)

\* list.into_iter().map(|o| eval_obj(o, env)).collect(): stops at the first Err
eval_seq(list, i, env, d, st, acc) ==
    IF i > Len(list) THEN [res |-> Ok(List(acc)), st |-> st]
    ELSE LET r == eval_obj(list[i], env, d + 1, st)
         IN  IF r.res.kind # "ok" THEN r
             ELSE eval_seq(list, i + 1, env, d, r.st, Append(acc, r.res.val))

define(symbol, value, env, d, st) ==
    LET r == eval_obj(value, env, d + 1, st)
    IN  IF r.res.kind # "ok" THEN r
        ELSE [res |-> Ok(Bool(TRUE)), st |-> SetIn(r.st, d, env, symbol, r.res.val)]

binop(operator, left, right, env, d, st) ==
    LET l == eval_obj(left, env, d + 1, st)
    IN  IF l.res.kind # "ok" THEN l
        ELSE LET r == eval_obj(right, env, d + 1, l.st)
             IN  IF r.res.kind # "ok" THEN r
                 ELSE [res |-> ApplyBinop(operator, l.res.val, r.res.val), st |-> r.st]

\* mutant: only Bool(true) counts as true
eval_condition_strict(cond, env, d, st) ==
    LET r == eval_obj(cond, env, d + 1, st)
    IN  IF r.res.kind # "ok" THEN r
        ELSE IF r.res.val = Bool(TRUE)
             THEN [res |-> Ok(TRUE), st |-> r.st]
             ELSE [res |-> Ok(FALSE), st |-> r.st]

\* res.val is a TLA+ boolean here
eval_condition(cond, env, d, st) ==
    LET r == eval_obj(cond, env, d + 1, st)
    IN  IF r.res.kind # "ok" THEN r
        ELSE IF r.res.val = Bool(FALSE)
             THEN [res |-> Ok(FALSE), st |-> r.st]
             ELSE [res |-> Ok(TRUE), st |-> r.st]

eval_if(condition, if_clause, env, d, st) ==
    LET c == eval_condition(condition, env, d, st)
    IN  IF c.res.kind # "ok" THEN c
        ELSE IF c.res.val = TRUE
             THEN eval_obj(if_clause, env, d + 1, c.st)
             ELSE [res |-> Ok(Bool(FALSE)), st |-> c.st]

eval_if_else(condition, if_clause, else_clause, env, d, st) ==
    LET c == eval_condition(condition, env, d, st)
    IN  IF c.res.kind # "ok" THEN c
        ELSE IF c.res.val = TRUE
             THEN eval_obj(if_clause, env, d + 1, c.st)
             ELSE eval_obj(else_clause, env, d + 1, c.st)

\* the loop over params of eval_function_call (eval.rs 242-245)
bind_params(params, list, i, env, new_env, d, st) ==
    IF i > Len(params) THEN [res |-> Ok(Bool(TRUE)), st |-> st]
    ELSE LET r == eval_obj(list[i + 1], env, d + 1, st)
         IN  IF r.res.kind # "ok" THEN r
             ELSE bind_params(params, list, i + 1, env, new_env, d,
                              SetIn(r.st, d, new_env, params[i], r.res.val))

eval_function_call(name, list, env, d, st) ==
    IF Len(list) = 0 THEN [res |-> Err("Empty list"), st |-> st]
    ELSE LET function == Env_get(st.heap, env, name)
         IN  IF ~function.some THEN [res |-> Err("Unbound symbol:"), st |-> st]
             ELSE IF function.v.t = "Lambda"
                  THEN IF ArityMismatch(function.v.params, list)
                       THEN [res |-> Err("Lambda expects a different number of parameters"),
                             st |-> st]
                       ELSE LET st1 == ExtendIn(st, d, env)
                                new_env == Len(st1.heap)
                                b == bind_params(function.v.params, list, 1, env,
                                                 new_env, d, st1)
                            IN  IF b.res.kind # "ok" THEN b
                                ELSE eval_obj(List(function.v.body), new_env, d + 1, b.st)
                  ELSE [res |-> Err("Trying to evaluate non-function expression"),
                        st |-> st]

\* --------------------------------------------------------------- tokenizer
\* A text is a sequence of characters, each a one-character string.
Alphabet == {"(", ")", " ", "\n", "\"", "a", "1", "."}

is_whitespace(c) == c \in {" ", "\n", "\t", "\r"}
IsParen(c) == c \in {"(", ")"}
IsDigit(c) == c \in {"0", "1", "2", "3", "4", "5", "6", "7", "8", "9"}
DigitVal(c) ==
    CASE c = "0" -> 0 [] c = "1" -> 1 [] c = "2" -> 2 [] c = "3" -> 3 [] c = "4" -> 4
      [] c = "5" -> 5 [] c = "6" -> 6 [] c = "7" -> 7 [] c = "8" -> 8 [] c = "9" -> 9

RECURSIVE Pow10(_)
Pow10(n) == IF n = 0 THEN 1 ELSE 10 * Pow10(n - 1)

RECURSIVE DecimalVal(_)
DecimalVal(ds) ==
    IF ds = <<>> THEN 0
    ELSE 10 * DecimalVal(SubSeq(ds, 1, Len(ds) - 1)) + DigitVal(ds[Len(ds)])

AllDigits(ds) == \A k \in DOMAIN ds : IsDigit(ds[k])

Unsigned(tok) == IF tok # <<>> /\ tok[1] \in {"+", "-"} THEN Tail(tok) ELSE tok
Signed(tok, v) == IF tok # <<>> /\ tok[1] = "-" THEN -v ELSE v

\* token.parse::<i64>(): an optional sign and one digit or more, in range
parse_i64(tok) ==
    LET ds == Unsigned(tok)
    IN  IF ds # <<>> /\ AllDigits(ds) /\ Signed(tok, DecimalVal(ds)) \in I64
        THEN [some |-> TRUE, v |-> Signed(tok, DecimalVal(ds))]
        ELSE [some |-> FALSE]

\* token.parse::<f64>() on the texts of Alphabet: an optional sign, digits
\* with at most one point and one digit at least (no letter of Alphabet
\* spells an exponent, inf or nan).  The value is num / den.
parse_f64(tok) ==
    LET ds == Unsigned(tok)
        points == {k \in DOMAIN ds : ds[k] = "."}
        digits == SelectSeq(ds, IsDigit)
        frac == IF points = {} THEN 0 ELSE Len(ds) - (CHOOSE k \in points : TRUE)
    IN  IF /\ digits # <<>>
           /\ Cardinality(points) <= 1
           /\ \A k \in DOMAIN ds : IsDigit(ds[k]) \/ ds[k] = "."
        THEN [some |-> TRUE, num |-> Signed(tok, DecimalVal(digits)), den |-> Pow10(frac)]
        ELSE [some |-> FALSE]

\* Token
TInteger(n) == [t |-> "Integer", n |-> n]
TFloat(num, den) == [t |-> "Float", num |-> num, den |-> den]
TString(s) == [t |-> "String", str |-> s]
TSymbol(s) == [t |-> "Symbol", s |-> s]
LParen == [t |-> "LParen"]
RParen == [t |-> "RParen"]
LexerError(msg, c, line, col) ==
    [t |-> "LexerError", msg |-> msg, c |-> c, line |-> line, col |-> col]

Some(tok) == [some |-> TRUE, tok |-> tok]
None == [some |-> FALSE]

tokenize(s) == [chars |-> s, is_error |-> FALSE, c_count |-> 1, line_count |-> 1]

\* self.chars.next(); self.c_count += 1
Consume(i) == [i EXCEPT !.chars = Tail(i.chars), !.c_count = i.c_count + 1]

\* mutant: the error flag is never raised
SetError_forgotten(i) == i

\* self.is_error = true (lexer.rs 91, 131)
SetError(i) == [i EXCEPT !.is_error = TRUE]

\* the loop that consumes the whitespace before a token (lexer.rs 53-70)
RECURSIVE skip_whitespace(_)
skip_whitespace(i) ==
    IF i.chars = <<>> THEN i
    ELSE LET c == Head(i.chars)
         IN  IF ~is_whitespace(c)
             THEN IF c = "\n"
                  THEN [i EXCEPT !.line_count = i.line_count + 1, !.c_count = 0]
                  ELSE i
             ELSE skip_whitespace(Consume(i))

\* the classification of a finished token (lexer.rs 148-173)
finish_token(i, token, in_string) ==
    IF in_string
    THEN [it |-> i, tok |-> Some(LexerError("Unexpected EOF", "", i.line_count, i.c_count))]
    ELSE IF token = <<>> THEN [it |-> i, tok |-> None]
    ELSE IF token = <<"(">> THEN [it |-> i, tok |-> Some(LParen)]
    ELSE IF token = <<")">> THEN [it |-> i, tok |-> Some(RParen)]
    ELSE IF parse_i64(token).some
         THEN [it |-> i, tok |-> Some(TInteger(parse_i64(token).v))]
    ELSE IF parse_f64(token).some
         THEN [it |-> i, tok |-> Some(TFloat(parse_f64(token).num, parse_f64(token).den))]
    ELSE [it |-> i, tok |-> Some(TSymbol(token))]

\* the loop that reads one token (lexer.rs 76-146)
RECURSIVE read_token(_, _, _)
\* mutant: a paren that ends a token is consumed with it
read_token_eats_paren(i, token, in_string) ==
    IF i.chars = <<>> THEN finish_token(i, token, in_string)
    ELSE LET c == Head(i.chars)
         IN  IF in_string
             THEN LET i1 == IF c = "\n"
                            THEN [i EXCEPT !.line_count = i.line_count + 1]
                            ELSE i
                  IN  IF c = "\""
                      THEN LET i2 == Consume(i1)
                           IN  IF /\ i2.chars # <<>>
                                  /\ ~is_whitespace(Head(i2.chars))
                                  /\ ~IsParen(Head(i2.chars))
                               THEN [it |-> SetError(i2),
                                     tok |-> Some(LexerError("Unexpected character",
                                                             Head(i2.chars),
                                                             i2.line_count, i2.c_count))]
                               ELSE [it |-> i2, tok |-> Some(TString(token))]
                      ELSE read_token(Consume(i1), Append(token, c), TRUE)
             ELSE IF is_whitespace(c) THEN finish_token(i, token, FALSE)
             ELSE IF IsParen(c)
                  THEN finish_token([i EXCEPT !.chars = Tail(i.chars)],
                                    IF token = <<>> THEN <<c>> ELSE token, FALSE)
             ELSE IF c = "\""
                  THEN IF token = <<>>
                       THEN read_token(Consume(i), token, TRUE)
                       ELSE [it |-> SetError(i),
                             tok |-> Some(LexerError("Unexpected character", "\"",
                                                     i.line_count, i.c_count))]
             ELSE read_token(Consume(i), Append(token, c), FALSE)

read_token(i, token, in_string) ==
    IF i.chars = <<>> THEN finish_token(i, token, in_string)
    ELSE LET c == Head(i.chars)
         IN  IF in_string
             THEN LET i1 == IF c = "\n"
                            THEN [i EXCEPT !.line_count = i.line_count + 1]
                            ELSE i
                  IN  IF c = "\""
                      THEN LET i2 == Consume(i1)
                           IN  IF /\ i2.chars # <<>>
                                  /\ ~is_whitespace(Head(i2.chars))
                                  /\ ~IsParen(Head(i2.chars))
                               THEN [it |-> SetError(i2),
                                     tok |-> Some(LexerError("Unexpected character",
                                                             Head(i2.chars),
                                                             i2.line_count, i2.c_count))]
                               ELSE [it |-> i2, tok |-> Some(TString(token))]
                      ELSE read_token(Consume(i1), Append(token, c), TRUE)
             ELSE IF is_whitespace(c) THEN finish_token(i, token, FALSE)
             ELSE IF IsParen(c)
                  THEN IF token = <<>>
                       THEN finish_token([i EXCEPT !.chars = Tail(i.chars)], <<c>>, FALSE)
                       ELSE finish_token(i, token, FALSE)
             ELSE IF c = "\""
                  THEN IF token = <<>>
                       THEN read_token(Consume(i), token, TRUE)
                       ELSE [it |-> SetError(i),
                             tok |-> Some(LexerError("Unexpected character", "\"",
                                                     i.line_count, i.c_count))]
             ELSE read_token(Consume(i), Append(token, c), FALSE)

\* TokenIterator::next
TokenIterator_next(i) ==
    IF i.is_error THEN [it |-> i, tok |-> None]
    ELSE read_token(skip_whitespace(i), <<>>, FALSE)

\* ------------------------------------------------------------------ parser
\* ParseError::new
ParseError(msg, c, line, col) ==
    [kind |-> "err", err |-> [msg |-> msg, c |-> c, line |-> line, col |-> col]]

\* parse_list's error: Excepted Left Paren, found {:?}
ExpectedLParen(found) ==
    [kind |-> "err", err |-> [msg |-> "Excepted Left Paren", found |-> found]]

RECURSIVE parse_inner_list(_, _)
\* mutant: the end of the stream closes the open lists
parse_inner_list_lenient(i, list) ==
    LET r == TokenIterator_next(i)
    IN  IF ~r.tok.some THEN [res |-> Ok(List(list)), it |-> r.it]
        ELSE LET t == r.tok.tok
             IN  CASE t.t = "Integer" -> parse_inner_list(r.it, Append(list, Integer(t.n)))
                   [] t.t = "Float" ->
                        parse_inner_list(r.it, Append(list, Float(t.num, t.den)))
                   [] t.t = "String" -> parse_inner_list(r.it, Append(list, String(t.str)))
                   [] t.t = "Symbol" -> parse_inner_list(r.it, Append(list, Symbol(t.s)))
                   [] t.t = "LParen" ->
                        LET sub_list == parse_inner_list(r.it, <<>>)
                        IN  IF sub_list.res.kind # "ok" THEN sub_list
                            ELSE parse_inner_list(sub_list.it,
                                                  Append(list, sub_list.res.val))
                   [] t.t = "RParen" -> [res |-> Ok(List(list)), it |-> r.it]
                   [] t.t = "LexerError" ->
                        [res |-> ParseError(t.msg, t.c, t.line, t.col), it |-> r.it]

\* the loop of parse_inner_list, list being the Vec built so far
parse_inner_list(i, list) ==
    LET r == TokenIterator_next(i)
    IN  IF ~r.tok.some
        THEN [res |-> ParseError("Encountered an unexpected EOF !", "", 0, 0), it |-> r.it]
        ELSE LET t == r.tok.tok
             IN  CASE t.t = "Integer" -> parse_inner_list(r.it, Append(list, Integer(t.n)))
                   [] t.t = "Float" ->
                        parse_inner_list(r.it, Append(list, Float(t.num, t.den)))
                   [] t.t = "String" -> parse_inner_list(r.it, Append(list, String(t.str)))
                   [] t.t = "Symbol" -> parse_inner_list(r.it, Append(list, Symbol(t.s)))
                   [] t.t = "LParen" ->
                        LET sub_list == parse_inner_list(r.it, <<>>)
                        IN  IF sub_list.res.kind # "ok" THEN sub_list
                            ELSE parse_inner_list(sub_list.it,
                                                  Append(list, sub_list.res.val))
                   [] t.t = "RParen" -> [res |-> Ok(List(list)), it |-> r.it]
                   [] t.t = "LexerError" ->
                        [res |-> ParseError(t.msg, t.c, t.line, t.col), it |-> r.it]

parse_list(i) ==
    LET r == TokenIterator_next(i)
    IN  IF r.tok # Some(LParen)
        THEN [res |-> ExpectedLParen(r.tok), it |-> r.it]
        ELSE parse_inner_list(r.it, <<>>)

parse(s) == parse_list(tokenize(s))

\* ----------------------------------------------------------------- Display
DigitChar(d) ==
    CASE d = 0 -> "0" [] d = 1 -> "1" [] d = 2 -> "2" [] d = 3 -> "3" [] d = 4 -> "4"
      [] d = 5 -> "5" [] d = 6 -> "6" [] d = 7 -> "7" [] d = 8 -> "8" [] d = 9 -> "9"

\* the decimal digits of n >= 0
RECURSIVE DigitsOf(_)
DigitsOf(n) ==
    IF n < 10 THEN <<DigitChar(n)>> ELSE DigitsOf(n \div 10) \o <<DigitChar(n % 10)>>

\* write!(f, "{}", n) of an i64
fmt_i64(n) == IF n < 0 THEN <<"-">> \o DigitsOf(-n) ELSE DigitsOf(n)

\* the digits after the point of frac / den, up to the last one that is not 0
RECURSIVE FracDigits(_, _)
FracDigits(frac, den) ==
    IF frac = 0 THEN <<>>
    ELSE <<DigitChar((frac * 10) \div den)>> \o FracDigits((frac * 10) % den, den)

\* write!(f, "{}", fl) of the f64 num / den: the shortest decimal that reads
\* back as the same value, without a point when the value is whole
fmt_f64(num, den) ==
    (IF num < 0 THEN <<"-">> ELSE <<>>)
        \o DigitsOf(Abs(num) \div den)
        \o (IF Abs(num) % den = 0 THEN <<>> ELSE <<".">> \o FracDigits(Abs(num) % den, den))

fmt_bool(b) == IF b THEN <<"t", "r", "u", "e">> ELSE <<"f", "a", "l", "s", "e">>

RECURSIVE fmt(_)
RECURSIVE fmt_params(_)
RECURSIVE fmt_body(_)
RECURSIVE fmt_elements(_, _)

\* for p in params { write!(f, "{} ", p) }
fmt_params(params) ==
    IF params = <<>> THEN <<>> ELSE Head(params) \o <<" ">> \o fmt_params(Tail(params))

\* for e in body { write!(f, "{} ", e) }
fmt_body(body) ==
    IF body = <<>> THEN <<>> ELSE fmt(Head(body)) \o <<" ">> \o fmt_body(Tail(body))

\* the loop of the List arm, from element i on
fmt_elements(list, i) ==
    IF i > Len(list) THEN <<>>
    ELSE (IF i > 1 THEN <<" ">> ELSE <<>>) \o fmt(list[i]) \o fmt_elements(list, i + 1)

\* impl fmt::Display for Object, the text as a sequence of characters
fmt(o) ==
    CASE o.t = "Integer" -> fmt_i64(o.n)
      [] o.t = "Float" -> fmt_f64(o.num, o.den)
      [] o.t = "Bool" -> fmt_bool(o.b)
      [] o.t = "String" -> <<"\"">> \o o.str \o <<"\"">>
      [] o.t = "Symbol" -> o.s
      [] o.t = "Lambda" ->
            <<"λ", " ">> \o fmt_params(o.params) \o <<".", " ">> \o fmt_body(o.body)
      [] o.t = "List" -> <<"(">> \o fmt_elements(o.l, 1)

\* ------------------------------------------------------------------ inputs
S(x) == Symbol(x)
I(n) == Integer(n)
Def(name, e) == List(<<S("define"), S(name), e>>)
Lam(ps, body) == List(<<S("lambda"), List(ps), body>>)
Op(o, a, b) == List(<<S(o), a, b>>)

D_sqr == Def("sqr", Lam(<<S("r")>>, Op("*", S("r"), S("r"))))
D_fact == Def("fact", Lam(<<S("n")>>,
              List(<<S("if"), Op("<", S("n"), I(1)), I(1),
                     Op("*", S("n"), List(<<S("fact"), Op("-", S("n"), I(1))>>))>>)))
D_g == Def("g", Lam(<<>>, Op("+", S("x"), I(0))))
D_f == Def("f", Lam(<<S("x")>>, List(<<S("g")>>)))
D_h == Def("h", Lam(<<S("r")>>, Def("y", S("r"))))
D_add == Def("add", Lam(<<S("a"), S("b")>>, Op("+", S("a"), S("b"))))
D_plus == Def("+", Lam(<<S("a")>>, Def("y", S("a"))))
D_if == Def("if", Lam(<<>>, Def("w", I(1))))
D_define == Def("define", Lam(<<S("a"), S("b"), S("c")>>, Def("z", S("c"))))
D_lambda == Def("lambda", Lam(<<S("a"), S("b")>>, Def("u", S("b"))))

\* the parse trees of the lines a session may read
Programs == {
    List(<<Def("r", I(2)), Def("pi", I(3)), Op("*", S("pi"), Op("*", S("r"), S("r")))>>),
    List(<<D_sqr, List(<<S("sqr"), I(3)>>)>>),
    List(<<D_fact, List(<<S("fact"), I(3)>>)>>),
    List(<<S("fact"), I(2)>>),
    List(<<Def("x", I(1)), D_g, D_f, List(<<S("f"), I(2)>>), List(<<S("g")>>)>>),
    List(<<D_h, List(<<S("h"), I(4)>>), S("y")>>),
    List(<<D_h, Def("y", I(7)), List(<<S("h"), I(4)>>), S("y")>>),
    Def("r", I(3)),
    List(<<S("sqr"), S("r")>>),
    List(<<D_add, List(<<S("add"), List(<<S("sqr"), I(2)>>), Def("q", I(1))>>)>>),
    List(<<Def("a", I(1)), S("zz"), Def("b", I(2))>>),
    List(<<Def("a", I(2)), Op("*", I(15), I(15)), Def("b", I(2))>>),
    List(<<I(1), S("a"), S("b")>>),
    List(<<I(1), Def("c", I(5)), Op("+", S("c"), I(1))>>),
    List(<<S("define"), I(1), Def("q", I(1))>>),
    List(<<S("define"), S("a")>>),
    List(<<S("define"), S("a"), Def("q", I(1)), Def("q", I(2))>>),
    List(<<S("+"), Def("q", I(1))>>),
    List(<<S("<"), I(1), I(2), Def("q", I(1))>>),
    List(<<S("if"), Def("q", I(1))>>),
    List(<<S("if")>>),
    List(<<S("if"), I(1), I(2), I(3), Def("q", I(1))>>),
    D_plus,
    D_if,
    D_define,
    List(<<S("r"), Def("q", I(1))>>),
    List(<<S("nofn"), Def("q", I(1))>>),
    List(<<S("sqr"), Def("q", I(1)), I(2)>>),
    List(<<S("sqr")>>),
    List(<<S("if"), Op("<", I(1), I(2)), Def("t", I(1)), Def("e", I(2))>>),
    List(<<S("if"), Op(">", I(1), I(2)), Def("t", I(1)), Def("e", I(2))>>),
    List(<<S("if"), Op(">", I(1), I(2)), Def("t", I(1))>>),
    List(<<S("if"), I(0), Def("t", I(1))>>),
    List(<<S("if"), Def("c", I(1)), I(7), I(8)>>),
    List(<<S("if"), S("zz"), Def("t", I(1)), Def("e", I(2))>>),
    Op("/", I(1), I(0)),
    Op("+", I(I64Max), I(1)),
    Op("/", I(-7), I(2)),
    List(<<>>),
    List(<<String("s"), Lam(<<S("k")>>, List(<<S("k")>>))>>),
    List(<<D_lambda, Lam(<<S("k")>>, List(<<S("k")>>)), List(<<S("lambda"), I(1), I(2)>>)>>),
    List(<<S("lambda"), List(<<I(1)>>), List(<<>>)>>)
}

\* ((define v (op l r)) (define w 1)) for every pair of integers
ArithOps == {"+", "-", "*", "/"}
ArithProgram(o, l, r) == List(<<Def("v", Op(o, I(l), I(r))), Def("w", I(1))>>)
ArithPrograms == {ArithProgram(o, l, r) : o \in ArithOps, l \in I64, r \in I64}

\* ------------------------------------------------------------- the session
NoResult == [kind |-> "none"]

\* eval.rs eval() after parse, on the session's environment
Run(p, g) ==
    eval_obj(p, 1, 0, [heap |-> <<[parent |-> 0, vars |-> g]>>, log |-> <<>>])

Init ==
    /\ overflow_checks \in BOOLEAN
    /\ genv = <<>>
    /\ alive = TRUE
    /\ lines = 0
    /\ program = List(<<>>)
    /\ result = NoResult
    /\ log = <<>>
    /\ text = <<>>
    /\ it = tokenize(<<>>)
    /\ out = <<>>
    /\ tree = NoResult
    /\ shown = <<>>

\* one turn of main's loop: read a line, eval it against env, print
EvalLine(p) ==
    /\ alive
    /\ lines < MaxLines
    /\ LET r == Run(p, genv)
       IN  /\ program' = p
           /\ result' = r.res
           /\ log' = r.st.log
           /\ genv' = r.st.heap[1].vars
           /\ alive' = (r.res.kind # "panic")
    /\ lines' = lines + 1
    /\ UNCHANGED <<overflow_checks, lexvars, parsevars>>

Next == \E p \in Programs : EvalLine(p)

Spec == Init /\ [][Next]_vars

\* a single evaluation of an arithmetic program on a fresh environment
ArithInit ==
    /\ overflow_checks \in BOOLEAN
    /\ genv = <<>>
    /\ alive = TRUE
    /\ lines = 0
    /\ program \in ArithPrograms
    /\ result = NoResult
    /\ log = <<>>
    /\ text = <<>>
    /\ it = tokenize(<<>>)
    /\ out = <<>>
    /\ tree = NoResult
    /\ shown = <<>>

ArithEval ==
    /\ lines = 0
    /\ EvalLine(program)

ArithNext == ArithEval

ArithSpec == ArithInit /\ [][ArithNext]_vars

\* the tokenizer on every text of MaxLen characters at most
Texts == UNION {[1..n -> Alphabet] : n \in 0..MaxLen}
MaxCalls == MaxLen + 2

LexInit ==
    /\ overflow_checks = FALSE
    /\ genv = <<>>
    /\ alive = TRUE
    /\ lines = 0
    /\ program = List(<<>>)
    /\ result = NoResult
    /\ log = <<>>
    /\ text \in Texts
    /\ it = tokenize(text)
    /\ out = <<>>
    /\ tree = NoResult
    /\ shown = <<>>

\* one call of next() on the iterator
NextToken ==
    /\ Len(out) < MaxCalls
    /\ LET r == TokenIterator_next(it)
       IN  /\ it' = r.it
           /\ out' = Append(out, r.tok)
    /\ UNCHANGED <<text, evalvars, parsevars>>

LexNext == NextToken

LexSpec == LexInit /\ [][LexNext]_vars

\* parse on every text of MaxLen characters at most, and the printing of the
\* Object it returns
ParseInit == LexInit

Parse ==
    /\ tree = NoResult
    /\ LET r == parse(text)
       IN  /\ tree' = r.res
           /\ it' = r.it
    /\ UNCHANGED <<text, out, shown, evalvars>>

\* println!("{}", v) of the parsed Object
Show ==
    /\ tree # NoResult
    /\ tree.kind = "ok"
    /\ shown = <<>>
    /\ shown' = <<fmt(tree.val)>>
    /\ UNCHANGED <<text, it, out, tree, evalvars>>

ParseNext == Parse \/ Show

ParseSpec == ParseInit /\ [][ParseNext]_vars

\* ------------------------------------------------- reading the history
RECURSIVE AscendingSeq(_)
AscendingSeq(set) ==
    IF set = {} THEN <<>>
    ELSE LET m == CHOOSE x \in set : \A y \in set : x <= y
         IN  <<m>> \o AscendingSeq(set \ {m})

Evts == 1..Len(log)

\* a call of eval_obj that got past the host-stack bound
IsEnter(i) == log[i].k = "enter" /\ log[i].d <= MaxDepth

\* the return of the call of eval_obj entered at i
ExitOf(i) ==
    CHOOSE j \in (i + 1)..Len(log) :
        /\ log[j].k = "exit" /\ log[j].d = log[i].d
        /\ \A m \in (i + 1)..(j - 1) : ~(log[m].k = "exit" /\ log[m].d = log[i].d)

Res(i) == log[ExitOf(i)].res

\* the calls of eval_obj made directly by the call entered at i, in order
Children(i) ==
    AscendingSeq({c \in (i + 1)..(ExitOf(i) - 1) :
                log[c].k = "enter" /\ log[c].d = log[i].d + 1})

\* the events of the call entered at i itself, not of a nested eval_obj
OwnEvents(i, kind) ==
    {m \in (i + 1)..(ExitOf(i) - 1) : log[m].k = kind /\ log[m].d = log[i].d}

IsListEval(i) == IsEnter(i) /\ log[i].obj.t = "List"

\* a list that eval_list hands to eval_function_call
IsCall(i) ==
    /\ IsListEval(i)
    /\ BuiltinArm(log[i].obj.l) = "none"
    /\ Len(log[i].obj.l) > 0
    /\ log[i].obj.l[1].t = "Symbol"

Callee(i) == Env_get(log[i].heap, log[i].env, log[i].obj.l[1].s)

IsLambdaCall(i) ==
    /\ IsCall(i)
    /\ Callee(i).some
    /\ Callee(i).v.t = "Lambda"
    /\ Len(Callee(i).v.params) = Len(log[i].obj.l) - 1

\* a list that eval_list evaluates as a sequence
IsSequence(i) ==
    /\ IsListEval(i)
    /\ Len(log[i].obj.l) > 0
    /\ log[i].obj.l[1].t # "Symbol"

\* ---------------------------------------------------------------- claims

\* C1: in a call (f a1 .. an) where f resolves to a Lambda with n
\* parameters, the arguments are evaluated left to right in the caller's
\* environment (stopping at the first that fails), and the body is then
\* evaluated in one fresh environment whose parent is the caller's
\* environment; a name the activation does not bind, the procedure's own
\* name in a recursive call included, resolves in the body to the binding on
\* the caller's scope chain.
C1_CallInCallerScope ==
    \A i \in Evts : IsLambdaCall(i) =>
        LET list == log[i].obj.l
            f == Callee(i).v
            n == Len(f.params)
            caller == log[i].env
            cs == Children(i)
        IN  /\ Len(cs) >= 1 /\ Len(cs) <= n + 1
            /\ \A k \in 1..Len(cs) :
                  k <= n => log[cs[k]].obj = list[k + 1] /\ log[cs[k]].env = caller
            /\ \A k \in 1..(Len(cs) - 1) : Res(cs[k]).kind = "ok"
            /\ Len(cs) <= n => Res(cs[Len(cs)]).kind # "ok"
            /\ Cardinality(OwnEvents(i, "extend")) = 1
            /\ Len(cs) = n + 1 =>
                  LET b == cs[n + 1]
                      new == log[b].env
                  IN  /\ log[b].obj = List(f.body)
                      /\ new \notin DOMAIN log[i].heap
                      /\ log[b].heap[new].parent = caller
                      /\ Res(i) = Res(b)
                      /\ \A e \in (b + 1)..(ExitOf(b) - 1) :
                            (/\ IsEnter(e)
                             /\ log[e].env = new
                             /\ log[e].obj.t = "Symbol"
                             /\ log[e].obj.s \notin DOMAIN log[e].heap[new].vars)
                            => LET v == Env_get(log[e].heap, caller, log[e].obj.s)
                               IN  IF v.some THEN Res(e) = Ok(v.v)
                                   ELSE Res(e).kind = "err"
                      /\ \A e \in (b + 1)..(ExitOf(b) - 1) :
                            (/\ IsCall(e)
                             /\ log[e].env = new
                             /\ log[e].obj.l[1].s \notin DOMAIN log[e].heap[new].vars)
                            => /\ Callee(e) = Env_get(log[e].heap, caller, log[e].obj.l[1].s)
                               /\ ~Callee(e).some => Res(e) = Err("Unbound symbol:")

\* a procedure that called itself, three activations deep, and returned
C1_Witness ==
    \E i \in Evts : \E j \in Evts : \E k \in Evts :
        /\ IsLambdaCall(i) /\ IsLambdaCall(j) /\ IsLambdaCall(k)
        /\ i < j /\ j < k /\ k < ExitOf(j) /\ ExitOf(j) < ExitOf(i)
        /\ log[i].obj.l[1] = log[j].obj.l[1] /\ log[j].obj.l[1] = log[k].obj.l[1]
        /\ log[i].env = 1
        /\ Res(i).kind = "ok"

\* the call of eval_obj in which event j happened
Encloser(j) ==
    CHOOSE m \in 1..(j - 1) :
        /\ log[m].k = "enter" /\ log[m].d = log[j].d
        /\ \A x \in (m + 1)..(j - 1) : ~(log[x].k = "enter" /\ log[x].d = log[j].d)

\* the body of a completed parameter binding: the last child of a Lambda call
HasBody(i) == IsLambdaCall(i) /\ Len(Children(i)) = Len(Callee(i).v.params) + 1
BodyOf(i) == Children(i)[Len(Children(i))]

\* C2: a scope's mapping is changed only by a define or a parameter binding:
\* a define writes one name of the scope it is evaluated in, a parameter
\* binding writes one name of the new activation scope; every other scope
\* keeps its mapping.  Evaluating the body of a procedure leaves every scope
\* that existed before the activation unchanged, so a name bound in the
\* activation and in an ancestor has the ancestor's value for the caller.
C2_SetWritesCurrentScopeOnly ==
    /\ \A j \in 2..Len(log) :
          LET h0 == log[j - 1].heap
              h1 == log[j].heap
          IN  CASE log[j].k = "set" ->
                     LET e == log[j].env
                         m == Encloser(j)
                     IN  /\ DOMAIN h1 = DOMAIN h0
                         /\ \A x \in DOMAIN h0 : x # e => h1[x] = h0[x]
                         /\ h1[e].parent = h0[e].parent
                         /\ DOMAIN h1[e].vars = DOMAIN h0[e].vars \cup {log[j].name}
                         /\ h1[e].vars[log[j].name] = log[j].val
                         /\ \A nm \in DOMAIN h0[e].vars :
                               nm # log[j].name => h1[e].vars[nm] = h0[e].vars[nm]
                         /\ \/ /\ BuiltinArm(log[m].obj.l) = "define"
                               /\ log[j].name = log[m].obj.l[2].s
                               /\ e = log[m].env
                            \/ /\ IsLambdaCall(m)
                               /\ log[j].name \in
                                     {Callee(m).v.params[q] : q \in DOMAIN Callee(m).v.params}
                               /\ \E x \in OwnEvents(m, "extend") : x < j /\ log[x].env = e
                [] log[j].k = "extend" ->
                     /\ h1 = Append(h0, [parent |-> log[j].parent, vars |-> <<>>])
                     /\ log[j].env = Len(h1)
                [] OTHER -> h1 = h0
    /\ \A i \in Evts : HasBody(i) =>
          LET b == BodyOf(i)
              new == log[b].env
              hb == log[b].heap
              hx == log[ExitOf(b)].heap
          IN  /\ \A x \in DOMAIN hb : x # new => hx[x] = hb[x]
              /\ \A nm \in DOMAIN hx[new].vars :
                    Env_get(hx, log[i].env, nm) = Env_get(hb, log[i].env, nm)

\* a call bound a name in its activation that an ancestor binds to another
\* value, and the caller read the ancestor's value after the call returned
C2_Witness ==
    \E i \in Evts : \E e \in Evts :
        /\ HasBody(i)
        /\ Res(i).kind = "ok"
        /\ e > ExitOf(i)
        /\ IsEnter(e) /\ log[e].env = log[i].env /\ log[e].obj.t = "Symbol"
        /\ LET b == BodyOf(i)
               act == log[ExitOf(b)].heap[log[b].env].vars
               nm == log[e].obj.s
               anc == Env_get(log[b].heap, log[i].env, nm)
           IN  /\ nm \in DOMAIN act
               /\ anc.some
               /\ anc.v # act[nm]
               /\ Res(e) = Ok(anc.v)

\* C3: when element k of a sequence fails, the sequence returns that error
\* (no List), no element after k is evaluated, and the bindings made by the
\* defines of the elements before k stay in the environment: the session's
\* environment holds them, and the next eval call starts from it.
C3_SequenceFailsFast ==
    /\ [](\A i \in Evts : (IsSequence(i) /\ Res(i).kind = "err") =>
            LET list == log[i].obj.l
                cs == Children(i)
                k == Len(cs)
            IN  /\ k >= 1 /\ k <= Len(list)
                /\ \A m \in 1..k : log[cs[m]].obj = list[m]
                /\ \A m \in 1..(k - 1) : Res(cs[m]).kind = "ok"
                /\ Res(cs[k]) = Res(i)
                /\ ExitOf(i) = ExitOf(cs[k]) + 1
                /\ \A j \in (i + 1)..(ExitOf(i) - 1) :
                      (log[j].k = "set" /\ log[j].env = log[i].env
                         /\ \A x \in (j + 1)..(ExitOf(i) - 1) :
                               ~(log[x].k = "set" /\ log[x].env = log[j].env
                                   /\ log[x].name = log[j].name))
                      => /\ log[j].name \in DOMAIN log[ExitOf(i)].heap[log[i].env].vars
                         /\ log[ExitOf(i)].heap[log[i].env].vars[log[j].name] = log[j].val
                         /\ i = 1 => /\ log[j].name \in DOMAIN genv
                                     /\ genv[log[j].name] = log[j].val)
    /\ [][lines' = lines + 1 => log'[1].heap[1].vars = genv]_vars

\* a program whose second or later form failed after a define, with forms
\* left unevaluated, and the define's binding in the session's environment
C3_Witness ==
    /\ lines >= 1
    /\ result.kind = "err"
    /\ IsSequence(1)
    /\ Len(Children(1)) >= 2
    /\ Len(Children(1)) < Len(program.l)
    /\ \E j \in Evts : log[j].k = "set" /\ log[j].env = 1 /\ log[j].d = 1
                        /\ log[j].name \in DOMAIN genv

\* C4: a non-empty list whose head is not a Symbol and whose elements all
\* evaluate returns the List of the elements' results, evaluated left to
\* right in the same environment; a define form contributes Bool(true) and
\* its binding is visible to the later elements.
C4_SequenceResult ==
    \A i \in Evts : (IsSequence(i) /\ Res(i).kind = "ok") =>
        LET list == log[i].obj.l
            cs == Children(i)
            val == Res(i).val
        IN  /\ val.t = "List"
            /\ Len(val.l) = Len(list)
            /\ Len(cs) = Len(list)
            /\ \A k \in 1..Len(cs) :
                  /\ log[cs[k]].obj = list[k]
                  /\ log[cs[k]].env = log[i].env
                  /\ Res(cs[k]) = Ok(val.l[k])
                  /\ (list[k].t = "List" /\ BuiltinArm(list[k].l) = "define") =>
                        /\ val.l[k] = Bool(TRUE)
                        /\ \A m \in (k + 1)..Len(cs) :
                              Env_get(log[cs[m]].heap, log[i].env, list[k].l[2].s).some
                        /\ k < Len(cs) =>
                              \E j \in OwnEvents(cs[k], "set") :
                                  Env_get(log[cs[k + 1]].heap, log[i].env, list[k].l[2].s)
                                      = [some |-> TRUE, v |-> log[j].val]

\* a program of three forms or more returned its List, a define among them
\* followed by a form that read the name
C4_Witness ==
    /\ lines >= 1
    /\ result.kind = "ok"
    /\ IsSequence(1)
    /\ Len(program.l) >= 3
    /\ \E k \in 1..(Len(program.l) - 1) :
          /\ program.l[k].t = "List" /\ BuiltinArm(program.l[k].l) = "define"
          /\ \E e \in Evts : /\ e > ExitOf(Children(1)[k])
                             /\ IsEnter(e) /\ log[e].env = 1
                             /\ log[e].obj = program.l[k].l[2]
                             /\ Res(e).kind = "ok"

\* a list headed by define, if or a binary operator that fits none of the
\* shapes of eval_builtin
IsMisfit(list) ==
    /\ Len(list) > 0
    /\ list[1].t = "Symbol"
    /\ \/ list[1].s = "define" /\ (Len(list) # 3 \/ list[2].t # "Symbol")
       \/ list[1].s \in BINOPS /\ Len(list) # 3
       \/ list[1].s = "if" /\ Len(list) \notin {3, 4}

\* C5: in every environment, a list headed by define, if or a binary
\* operator whose shape does not fit the form returns an error and evaluates
\* none of its sub-expressions.
C5_MisfitFormIsError ==
    \A i \in Evts : (IsListEval(i) /\ IsMisfit(log[i].obj.l)) =>
        /\ Res(i).kind = "err"
        /\ ExitOf(i) = i + 1

\* the operator and the operands of an arithmetic program, and the entry of
\* its binop in the history
ArithOp == program.l[1].l[3].l[1].s
ArithL == program.l[1].l[3].l[2].n
ArithR == program.l[1].l[3].l[3].n
ArithEvt == CHOOSE e \in Evts : IsEnter(e) /\ log[e].obj = program.l[1].l[3]

\* C6: for every pair of Integer operands, + - and / complete with a value
\* or an error message, and the value is the Integer sum, difference or
\* quotient truncated toward zero (when that is a 64-bit integer).
C6_IntegerArithCompletes ==
    (lines = 1 /\ ArithOp \in {"+", "-", "/"}) =>
        LET r == Res(ArithEvt)
            exact == CASE ArithOp = "+" -> ArithL + ArithR
                       [] ArithOp = "-" -> ArithL - ArithR
                       [] ArithOp = "/" ->
                            IF ArithR = 0 THEN 0 ELSE TruncDiv(ArithL, ArithR)
        IN  /\ r.kind \in {"ok", "err"}
            /\ result.kind \in {"ok", "err"}
            /\ (r.kind = "ok" /\ ArithR # 0 /\ exact \in I64) => r.val = Integer(exact)

\* C7: for every pair of Integer operands, * returns Integer(l*r) when the
\* product fits and the error "Integer overflow" otherwise, never a wrapped
\* value; the error is the result of the enclosing evaluation, whose define
\* and later forms do not take effect.
C7_CheckedMultiply ==
    (lines = 1 /\ ArithOp = "*") =>
        IF ArithL * ArithR \in I64
        THEN /\ Res(ArithEvt) = Ok(Integer(ArithL * ArithR))
             /\ result = Ok(List(<<Bool(TRUE), Bool(TRUE)>>))
             /\ genv = [nm \in {"v", "w"} |->
                           IF nm = "v" THEN Integer(ArithL * ArithR) ELSE Integer(1)]
        ELSE /\ Res(ArithEvt) = Err("Integer overflow")
             /\ result = Err("Integer overflow")
             /\ genv = <<>>
             /\ Len(Children(1)) = 1
             /\ alive

\* a product outside the range was refused
C7_Witness ==
    /\ lines = 1
    /\ ArithOp = "*"
    /\ ArithL * ArithR \notin I64
    /\ Wrap(ArithL * ArithR) # 0
    /\ result = Err("Integer overflow")

\* C8: a function-call form whose head is unbound, bound to a value that is
\* not a Lambda, or bound to a Lambda of another parameter count returns an
\* error; no argument is evaluated and no scope is modified.
C8_BadCallIsError ==
    \A i \in Evts : (IsCall(i) /\ ~IsLambdaCall(i)) =>
        /\ ExitOf(i) = i + 1
        /\ log[i + 1].heap = log[i].heap
        /\ Res(i) = IF ~Callee(i).some THEN Err("Unbound symbol:")
                    ELSE IF Callee(i).v.t # "Lambda"
                         THEN Err("Trying to evaluate non-function expression")
                         ELSE Err("Lambda expects a different number of parameters")

\* a Lambda was called with too many arguments, one of them a define
C8_Witness ==
    \E i \in Evts :
        /\ IsCall(i)
        /\ Callee(i).some
        /\ Callee(i).v.t = "Lambda"
        /\ Len(Callee(i).v.params) < Len(log[i].obj.l) - 1
        /\ log[i].obj.l[2].t = "List"
        /\ BuiltinArm(log[i].obj.l[2].l) = "define"
        /\ log[i].obj.l[2].l[2].s \notin DOMAIN genv
        /\ result.kind = "err"

\* C9: (if c t) and (if c t e) evaluate c once; when c's value is not
\* Bool(false) the result is that of t and e is not evaluated; when it is
\* Bool(false) the result is that of e (t not evaluated), or Bool(false)
\* without e; nothing else is evaluated or bound by the form.
C9_IfEvaluatesOneBranch ==
    \A i \in Evts : (IsListEval(i) /\ BuiltinArm(log[i].obj.l) \in {"if", "if_else"}) =>
        LET list == log[i].obj.l
            cs == Children(i)
            c == Res(cs[1])
        IN  /\ Len(cs) >= 1
            /\ log[cs[1]].obj = list[2] /\ log[cs[1]].env = log[i].env
            /\ \A j \in (i + 1)..(ExitOf(i) - 1) :
                  \E k \in 1..Len(cs) : cs[k] <= j /\ j <= ExitOf(cs[k])
            /\ IF c.kind # "ok" THEN Len(cs) = 1 /\ Res(i) = c
               ELSE IF c.val # Bool(FALSE)
               THEN /\ Len(cs) = 2
                    /\ log[cs[2]].obj = list[3] /\ log[cs[2]].env = log[i].env
                    /\ Res(i) = Res(cs[2])
               ELSE IF Len(list) = 4
               THEN /\ Len(cs) = 2
                    /\ log[cs[2]].obj = list[4] /\ log[cs[2]].env = log[i].env
                    /\ Res(i) = Res(cs[2])
               ELSE /\ Len(cs) = 1
                    /\ Res(i) = Ok(Bool(FALSE))

\* an if whose condition was Bool(false) evaluated its else branch, a
\* define, and the define of its then branch did not happen
C9_Witness ==
    \E i \in Evts :
        /\ IsListEval(i) /\ BuiltinArm(log[i].obj.l) = "if_else"
        /\ Res(Children(i)[1]) = Ok(Bool(FALSE))
        /\ LET t == log[i].obj.l[3]
               e == log[i].obj.l[4]
               h == log[ExitOf(i)].heap[log[i].env].vars
           IN  /\ t.t = "List" /\ BuiltinArm(t.l) = "define"
               /\ e.t = "List" /\ BuiltinArm(e.l) = "define"
               /\ t.l[2].s \notin DOMAIN h
               /\ e.l[2].s \in DOMAIN h

\* the characters of a symbol: neither whitespace, paren nor quote
IsSymbolChar(c) == ~is_whitespace(c) /\ ~IsParen(c) /\ c # "\""

\* the tokens of a text of parens and whitespace
ParenTokens(pre) ==
    LET ps == SelectSeq(pre, IsParen)
    IN  [k \in DOMAIN ps |-> IF ps[k] = "(" THEN LParen ELSE RParen]

\* text = pre run " .. : parens and whitespace, a symbol, a quote
SymbolThenQuote(pre, run) ==
    /\ pre >= 0 /\ run >= 1 /\ pre + run + 1 <= Len(text)
    /\ \A k \in 1..pre : is_whitespace(text[k]) \/ IsParen(text[k])
    /\ \A k \in (pre + 1)..(pre + run) : IsSymbolChar(text[k])
    /\ text[pre + run + 1] = "\""

\* text = pre " body " c .. : parens and whitespace, a string literal, and a
\* character that is neither whitespace nor paren
StringThenChar(pre, body) ==
    /\ pre >= 0 /\ body >= 0 /\ pre + body + 3 <= Len(text)
    /\ \A k \in 1..pre : is_whitespace(text[k]) \/ IsParen(text[k])
    /\ text[pre + 1] = "\""
    /\ \A k \in (pre + 2)..(pre + body + 1) : text[k] # "\""
    /\ text[pre + body + 2] = "\""
    /\ ~is_whitespace(text[pre + body + 3]) /\ ~IsParen(text[pre + body + 3])

\* out is: the tokens toks, then an "Unexpected character c" error, then None
OutIsErrorAfter(toks, c) ==
    \A k \in DOMAIN out :
        IF k <= Len(toks) THEN out[k] = Some(toks[k])
        ELSE IF k = Len(toks) + 1
             THEN /\ out[k].some
                  /\ out[k].tok.t = "LexerError"
                  /\ out[k].tok.msg = "Unexpected character"
                  /\ out[k].tok.c = c
             ELSE out[k] = None

\* C10: once next() has yielded a LexerError, every later call yields no
\* token; a symbol directly followed by a quote, and a string directly
\* followed by a character that is neither whitespace nor paren, yield the
\* LexerError alone: neither the partial symbol nor the string is emitted.
C10_ErrorIsTerminal ==
    /\ \A i \in DOMAIN out : \A j \in DOMAIN out :
          (i < j /\ out[i].some /\ out[i].tok.t = "LexerError") => out[j] = None
    /\ \A pre \in 0..Len(text) : \A n \in 0..Len(text) :
          /\ SymbolThenQuote(pre, n) =>
                OutIsErrorAfter(ParenTokens(SubSeq(text, 1, pre)), "\"")
          /\ StringThenChar(pre, n) =>
                OutIsErrorAfter(ParenTokens(SubSeq(text, 1, pre)), text[pre + n + 3])

\* a symbol ran into a quote: the error was the first token, input was left,
\* and two more calls of next() were made
C10_Witness ==
    /\ SymbolThenQuote(0, 1)
    /\ Len(text) >= 3
    /\ Len(out) >= 3
    /\ out[1].some /\ out[1].tok.t = "LexerError"
    /\ it.chars # <<>>

\* the length of the longest prefix of s without whitespace and parens
RECURSIVE RunLength(_)
RunLength(s) ==
    IF s = <<>> \/ is_whitespace(Head(s)) \/ IsParen(Head(s)) THEN 0
    ELSE 1 + RunLength(Tail(s))

\* a text cut into its parens and its maximal runs of other characters
RECURSIVE Segments(_)
Segments(s) ==
    IF s = <<>> THEN <<>>
    ELSE IF is_whitespace(Head(s)) THEN Segments(Tail(s))
    ELSE IF IsParen(Head(s)) THEN <<<<Head(s)>>>> \o Segments(Tail(s))
    ELSE <<SubSeq(s, 1, RunLength(s))>> \o Segments(SubSeq(s, RunLength(s) + 1, Len(s)))

\* token tok is the one token of segment seg
TokenOfSegment(tok, seg) ==
    IF seg = <<"(">> THEN tok = LParen
    ELSE IF seg = <<")">> THEN tok = RParen
    ELSE /\ tok.t \in {"Integer", "Float", "Symbol"}
         /\ tok.t = "Symbol" => tok.s = seg
         /\ tok.t = "Integer" => tok = TInteger(parse_i64(seg).v)
         /\ tok.t = "Float" => ~parse_i64(seg).some /\ parse_f64(seg).some

NoQuote == \A k \in DOMAIN text : text[k] # "\""

\* C11: on a text without a quote the tokenizer emits, in input order, one
\* LParen/RParen per paren and one Integer/Float/Symbol per maximal run of
\* characters that are neither whitespace nor paren; a paren that ends a run
\* is the next token; after these tokens, at most one per character, the
\* stream has ended.
C11_OneTokenPerSegment ==
    NoQuote =>
        LET segs == Segments(text)
        IN  /\ Len(segs) <= Len(text)
            /\ \A k \in DOMAIN out :
                  IF k <= Len(segs)
                  THEN out[k].some /\ TokenOfSegment(out[k].tok, segs[k])
                  ELSE out[k] = None

\* a run ended by a paren: the symbol, the paren, then the end of the stream
C11_Witness ==
    /\ NoQuote
    /\ Len(text) >= 2
    /\ IsSymbolChar(text[1]) /\ IsParen(text[2])
    /\ Len(out) = Len(Segments(text)) + 1
    /\ out[1].some /\ out[1].tok.t \in {"Integer", "Float", "Symbol"}
    /\ out[2].some /\ out[2].tok.t \in {"LParen", "RParen"}
    /\ out[Len(out)] = None

\* every token of a text, by calling next() until it returns None
RECURSIVE TokensFrom(_)
TokensFrom(i) ==
    LET r == TokenIterator_next(i)
    IN  IF r.tok.some THEN <<r.tok.tok>> \o TokensFrom(r.it) ELSE <<>>

\* what ends the list opened before token k, depth parens being open
RECURSIVE ScanList(_, _, _)
ScanList(toks, k, depth) ==
    IF k > Len(toks) THEN [kind |-> "eof", k |-> k]
    ELSE IF toks[k].t = "LexerError" THEN [kind |-> "lex", k |-> k]
    ELSE IF toks[k].t = "LParen" THEN ScanList(toks, k + 1, depth + 1)
    ELSE IF toks[k].t = "RParen"
         THEN IF depth = 1 THEN [kind |-> "match", k |-> k]
              ELSE ScanList(toks, k + 1, depth - 1)
    ELSE ScanList(toks, k + 1, depth)

\* the tokens that spell an Object
RECURSIVE Flatten(_)
RECURSIVE FlattenAll(_)
Flatten(o) ==
    CASE o.t = "List" -> <<LParen>> \o FlattenAll(o.l) \o <<RParen>>
      [] o.t = "Integer" -> <<TInteger(o.n)>>
      [] o.t = "Float" -> <<TFloat(o.num, o.den)>>
      [] o.t = "String" -> <<TString(o.str)>>
      [] o.t = "Symbol" -> <<TSymbol(o.s)>>
FlattenAll(l) == IF l = <<>> THEN <<>> ELSE Flatten(Head(l)) \o FlattenAll(Tail(l))

RECURSIVE Rendered(_)
RECURSIVE RenderedAll(_)
Rendered(o) ==
    IF o.t = "List" THEN <<"(">> \o RenderedAll(o.l) \o <<")">> ELSE fmt(o)
RenderedAll(l) ==
    IF l = <<>> THEN <<>>
    ELSE Rendered(Head(l)) \o (IF Len(l) > 1 THEN <<" ">> ELSE <<>>) \o RenderedAll(Tail(l))

\* the parens open at the end of s outside string literals, -1 once a ) came
\* with none open
RECURSIVE OpenParens(_, _, _)
OpenParens(s, depth, quoted) ==
    IF s = <<>> THEN depth
    ELSE IF Head(s) = "\"" THEN OpenParens(Tail(s), depth, ~quoted)
    ELSE IF quoted THEN OpenParens(Tail(s), depth, quoted)
    ELSE IF Head(s) = "(" THEN OpenParens(Tail(s), depth + 1, quoted)
    ELSE IF Head(s) = ")"
         THEN IF depth = 0 THEN -1 ELSE OpenParens(Tail(s), depth - 1, quoted)
    ELSE OpenParens(Tail(s), depth, quoted)

\* C13: the rendering of a List is (, its elements' renderings in order
\* separated by single spaces, and ); its parentheses are balanced.
C13_ListRendering ==
    \A k \in DOMAIN shown :
        /\ shown[k] = Rendered(tree.val)
        /\ OpenParens(shown[k], 0, FALSE) = 0

\* the characters of text the iterator has consumed
Consumed == SubSeq(text, 1, Len(text) - Len(it.chars))

\* the line counter by the rule: 1 (tokenize), one more for every newline
RECURSIVE LineByRule(_)
LineByRule(s) ==
    IF s = <<>> THEN 1
    ELSE LineByRule(SubSeq(s, 1, Len(s) - 1)) + (IF s[Len(s)] = "\n" THEN 1 ELSE 0)

\* the column counter by the rule: 1 (tokenize), 0 at a newline, one more for
\* every other character
RECURSIVE ColumnByRule(_)
ColumnByRule(s) ==
    IF s = <<>> THEN 1
    ELSE IF s[Len(s)] = "\n" THEN 0
    ELSE ColumnByRule(SubSeq(s, 1, Len(s) - 1)) + 1

\* C14: the line counter is incremented for every newline consumed, between
\* tokens as well as inside a string literal; the column counter is reset to
\* 0 at each newline and otherwise incremented once for every consumed
\* character, parens included; the line and column of a LexerError are those
\* of the offending character.
C14_CountersFollowRule ==
    /\ it.line_count = LineByRule(Consumed)
    /\ it.c_count = ColumnByRule(Consumed)
    /\ \A k \in DOMAIN out :
            out[k].some /\ out[k].tok.t = "LexerError" =>
                /\ out[k].tok.line = LineByRule(Consumed)
                /\ out[k].tok.col = ColumnByRule(Consumed)

\* the names eval_builtin knows
SpecialNames == {"define", "if", "lambda"} \cup BINOPS

\* the list evaluated at i was evaluated by the built-in form of its head:
\* the form's sub-expressions in the list's own environment, the form's
\* result, no activation scope
ByBuiltin(i) ==
    LET list == log[i].obj.l
        arm == BuiltinArm(list)
        env == log[i].env
        cs == Children(i)
        sets == OwnEvents(i, "set")
    IN  /\ OwnEvents(i, "extend") = {}
        /\ \A k \in 1..Len(cs) : log[cs[k]].env = env
        /\ CASE arm = "define" ->
                  /\ Len(cs) = 1
                  /\ log[cs[1]].obj = list[3]
                  /\ IF Res(cs[1]).kind = "ok"
                     THEN /\ Res(i) = Ok(Bool(TRUE))
                          /\ Cardinality(sets) = 1
                          /\ \A m \in sets : /\ log[m].env = env
                                             /\ log[m].name = list[2].s
                                             /\ log[m].val = Res(cs[1]).val
                     ELSE Res(i) = Res(cs[1]) /\ sets = {}
             [] arm = "binop" ->
                  /\ sets = {}
                  /\ Len(cs) \in {1, 2}
                  /\ log[cs[1]].obj = list[2]
                  /\ IF Res(cs[1]).kind # "ok"
                     THEN Len(cs) = 1 /\ Res(i) = Res(cs[1])
                     ELSE /\ Len(cs) = 2
                          /\ log[cs[2]].obj = list[3]
                          /\ Res(i) = IF Res(cs[2]).kind # "ok" THEN Res(cs[2])
                                      ELSE ApplyBinop(list[1].s, Res(cs[1]).val,
                                                      Res(cs[2]).val)
             [] arm \in {"if", "if_else"} ->
                  /\ sets = {}
                  /\ Len(cs) \in {1, 2}
                  /\ log[cs[1]].obj = list[2]
                  /\ Len(cs) = 2 =>
                        /\ Res(cs[1]).kind = "ok"
                        /\ log[cs[2]].obj =
                              IF Res(cs[1]).val # Bool(FALSE) THEN list[3] ELSE list[4]
                        /\ Res(i) = Res(cs[2])
                  /\ Len(cs) = 1 =>
                        Res(i) = IF Res(cs[1]).kind # "ok" THEN Res(cs[1])
                                 ELSE Ok(Bool(FALSE))
             [] arm = "lambda" ->
                  /\ ExitOf(i) = i + 1
                  /\ Res(i) = IF lambda_params(list[2].l, 1, <<>>).ok
                              THEN Ok(Lambda(lambda_params(list[2].l, 1, <<>>).params,
                                             list[3].l))
                              ELSE Err("Invalid lambda parameter")

\* the list evaluated at i was evaluated as a call of what its head is bound
\* to in the environment
ByBinding(i) ==
    LET list == log[i].obj.l
        f == Callee(i)
        cs == Children(i)
    IN  IF ~f.some THEN Res(i) = Err("Unbound symbol:") /\ ExitOf(i) = i + 1
        ELSE IF f.v.t # "Lambda"
             THEN /\ Res(i) = Err("Trying to evaluate non-function expression")
                  /\ ExitOf(i) = i + 1
        ELSE IF Len(f.v.params) # Len(list) - 1
             THEN /\ Res(i) = Err("Lambda expects a different number of parameters")
                  /\ ExitOf(i) = i + 1
        ELSE /\ Cardinality(OwnEvents(i, "extend")) = 1
             /\ Len(cs) >= 1
             /\ \A k \in 1..Len(cs) : k <= Len(f.v.params) => log[cs[k]].obj = list[k + 1]
             /\ Len(cs) = Len(f.v.params) + 1 =>
                   /\ log[cs[Len(cs)]].obj = List(f.v.body)
                   /\ Res(i) = Res(cs[Len(cs)])

\* C15: in every environment, one where define, if, lambda or an operator
\* is bound included, a list headed by that symbol whose shape fits the
\* special form is evaluated by the built-in form and the binding is not
\* consulted; the binding is consulted only for the lists whose shape does
\* not fit.
C15_BuiltinBeforeBinding ==
    \A i \in Evts :
        (/\ IsListEval(i)
         /\ Len(log[i].obj.l) > 0
         /\ log[i].obj.l[1].t = "Symbol"
         /\ log[i].obj.l[1].s \in SpecialNames) =>
            IF BuiltinArm(log[i].obj.l) # "none" THEN ByBuiltin(i) ELSE ByBinding(i)

\* with lambda bound to a procedure of two parameters, a lambda form of two
\* lists gave a Lambda, and (lambda 1 2) called the procedure
C15_Witness ==
    \E i, j \in Evts :
        /\ IsListEval(i)
        /\ BuiltinArm(log[i].obj.l) = "lambda"
        /\ Callee(i).some
        /\ Callee(i).v.t = "Lambda"
        /\ Len(Callee(i).v.params) = Len(log[i].obj.l) - 1
        /\ Res(i).kind = "ok"
        /\ Res(i).val.t = "Lambda"
        /\ IsLambdaCall(j)
        /\ log[j].obj.l[1].s = "lambda"
        /\ Callee(j) = Callee(i)
        /\ Res(j) = Ok(Bool(TRUE))

====
